---- MODULE Spec2Model ----
(***************************************************************************)
(* Model of the embedded language service host of volar's language-core:   *)
(* createEmbeddedLanguageServiceHost (languageContext.ts) on top of the    *)
(* document registry (documentRegistry.ts).                                *)
(*                                                                         *)
(* File names are sequences of tokens (<<"a", ".", "w">> is "a.w") so that *)
(* normalizePath, toLowerCase and the extension stripping of fileExists    *)
(* are computed, not assumed.  A host file's content is a small record     *)
(* from which the language modules derive the embedded-file tree.          *)
(***************************************************************************)
EXTENDS Integers, Sequences, FiniteSets, TLC

\* ---------------------------------------------------------------- bounds
\* number of changes the external host makes in one behaviour
MaxHostChanges == 2
\* cap of the adapter's project-version counter (a host without a project
\* version makes it grow on every query)
MaxTsVersion == 3
\* number of translator objects (SourceMapBase, Teleport) created in one behaviour
MaxInstances == 4

\* ------------------------------------------------------------- constants
\* every optional value is a record, so that it compares with Undefined
Undefined == [undefined |-> TRUE]

\* enum EmbeddedFileKind of ./types
TextFile == 0
TypeScriptHostFile == 1

\* ------------------------------------------------------------ file names
AW == <<"a", ".", "w">>
BT == <<"b", ".", "t">>
CW == <<"c", ".", "w">>
Files == {AW, BT, CW}
\* the order in which the host lists its files
FileOrder == <<AW, BT, CW>>

LowerTok(t) == CASE t = "A" -> "a" [] t = "B" -> "b" [] t = "W" -> "w" [] OTHER -> t
SlashTok(t) == IF t = "\\" THEN "/" ELSE t

toLowerCase(fileName) == [i \in DOMAIN fileName |-> LowerTok(fileName[i])]

\* backslashes replaced, the case left as it is
normalizePathKeepsCase(fileName) == [i \in DOMAIN fileName |-> SlashTok(fileName[i])]

normalizePath(fileName) ==
    [i \in DOMAIN fileName |-> LowerTok(SlashTok(fileName[i]))]

\* index of the last "." token, 0 when there is none (lastIndexOf = -1)
LastDot(fileName) ==
    LET dots == {i \in DOMAIN fileName : fileName[i] = "."}
    IN IF dots = {} THEN 0 ELSE CHOOSE i \in dots : \A j \in dots : j <= i

\* fileName.substring(0, fileName.lastIndexOf('.'))
StripExtension(fileName) ==
    IF LastDot(fileName) = 0 THEN <<>> ELSE SubSeq(fileName, 1, LastDot(fileName) - 1)

Extension(fileName) ==
    IF LastDot(fileName) = 0 THEN <<>>
    ELSE SubSeq(fileName, LastDot(fileName) + 1, Len(fileName))

\* ------------------------------------------------------ maps (JS Map/Record)
EmptyMap == [k \in {} |-> Undefined]
MapHas(m, k) == k \in DOMAIN m
MapGet(m, k) == IF k \in DOMAIN m THEN m[k] ELSE Undefined
MapSet(m, k, v) == [x \in DOMAIN m \cup {k} |-> IF x = k THEN v ELSE m[x]]
MapDelete(m, k) == [x \in DOMAIN m \ {k} |-> m[x]]
MapDeleteAll(m, ks) == [x \in DOMAIN m \ ks |-> m[x]]

\* Set.add on an insertion-ordered Set
SetAdd(s, x) == IF \E i \in DOMAIN s : s[i] = x THEN s ELSE Append(s, x)
SeqRange(s) == {s[i] : i \in DOMAIN s}

\* ------------------------------------------------------- host file contents
ContentBase ==
    [text |-> "base", script |-> "x1", style |-> "s1", lang |-> "ts", m1 |-> "doc", m2 |-> "doc"]
ContentStyle ==
    [text |-> "style", script |-> "x1", style |-> "s2", lang |-> "ts", m1 |-> "doc", m2 |-> "doc"]
ContentScript ==
    [text |-> "script", script |-> "x2", style |-> "s1", lang |-> "ts", m1 |-> "doc", m2 |-> "none"]
ContentJs ==
    [text |-> "js", script |-> "x1", style |-> "s1", lang |-> "js", m1 |-> "none", m2 |-> "doc"]
ContentBad ==
    [text |-> "bad", script |-> "x2", style |-> "s2", lang |-> "ts", m1 |-> "doc", m2 |-> "throw"]
\* a composite file with no script block
ContentNoScript ==
    [text |-> "noscript", script |-> "x1", style |-> "s1", lang |-> "none", m1 |-> "doc", m2 |-> "doc"]

Contents == {ContentBase, ContentStyle, ContentScript, ContentJs, ContentBad, ContentNoScript}

\* what the host may write into a file
ContentsOf(f) ==
    CASE f = AW -> Contents
      [] f = CW -> {ContentBase, ContentScript, ContentBad}
      [] OTHER -> {ContentBase}

\* -------------------------------------------------------- language modules
\* the list handed to createEmbeddedLanguageServiceHost, in registration order
RegisteredModules == <<"M1", "M2">>

\* LanguageModule.createSourceFile's outcome: both modules claim "*.w" files,
\* depending on the content
CreateOutcome(m, fileName, snapshot) ==
    IF Extension(fileName) # <<"w">> THEN "none"
    ELSE IF m = "M1" THEN snapshot.m1 ELSE snapshot.m2

\* the embedded-file tree a module derives from a snapshot
ParseTree(m, fileName, snapshot) ==
    [fileName |-> fileName, kind |-> TextFile, text |-> snapshot.text,
     embeddeds |->
        (IF snapshot.lang = "none" THEN <<>>
         ELSE << [fileName |-> fileName \o <<".", snapshot.lang>>, kind |-> TypeScriptHostFile,
                  text |-> snapshot.script, embeddeds |-> <<>>] >>)
        \o << [fileName |-> fileName \o <<".", "css">>, kind |-> TextFile,
                text |-> snapshot.style, embeddeds |-> <<>>] >>]

\* host operations the modules override through proxyLanguageServiceHost
ProxyApis(m) ==
    CASE m = "M1" -> {"getCompilationSettings"}
      [] m = "M2" -> {"getCompilationSettings", "getDefaultLibFileName"}
      [] OTHER -> {}

\* host operations the synthesized surface does not define itself
PassThroughKeys == {"getCompilationSettings", "getDefaultLibFileName", "getNewLine"}

Reverse(s) == [i \in DOMAIN s |-> s[Len(s) + 1 - i]]

\* the list left as it was handed over
languageModulesNotReversed == RegisteredModules

\* Array.prototype.reverse() reverses in place: this is the list every later
\* loop over languageModules sees
languageModules == Reverse(RegisteredModules)

\* the chain of Proxy objects around the raw host: the handler wrapped last is
\* the outermost; ProxyChain[1] is consulted first
RECURSIVE WrapHost(_, _)
WrapHost(i, chain) ==
    IF i > Len(languageModules) THEN chain
    ELSE WrapHost(i + 1, IF ProxyApis(languageModules[i]) # {}
                         THEN <<languageModules[i]>> \o chain ELSE chain)

ProxyChain == WrapHost(1, <<>>)

\* host[key] on the wrapped host: who answers
RECURSIVE HostGet(_, _)
HostGet(chain, key) ==
    IF chain = <<>> THEN "host"
    ELSE IF key \in ProxyApis(Head(chain)) THEN Head(chain)
    ELSE HostGet(Tail(chain), key)

VARIABLES
    \* the external host
    hostFiles,             \* file -> [listed, snapshot, version]
    hostProjectVersion,    \* Undefined when the host exposes no project version
    hostChanges,
    \* the adapter
    lastProjectVersion,
    tsProjectVersion,
    files,                 \* documentRegistry: the entries [key, sourceFile, languageModule]
    scriptSnapshots,
    sourceTsFileVersions,
    sourceVueFileVersions,
    virtualFileVersions,
    \* the document registry's mapping caches
    cachedSourceMaps,      \* _sourceMaps: document -> mapping table -> translator
    cachedTeleports,       \* _teleports: document -> mapping table -> translator
    instances,             \* the translator objects created so far
    given,                 \* per (cache, document, table): the translator last returned
                           \* since the document was last invalidated, 0 when none
    returned,              \* every translator ever returned
    \* observation
    lastOp,                \* the last operation: a query, or a host change
    result,                \* what the last query returned
    pass,                  \* what the update() of the last query did
    seenHost,              \* the host's files as of the last reconcile pass
    parsedVersions         \* per registered document: the host's version of the file
                           \* when the document was created or last re-parsed

hostVars == <<hostFiles, hostProjectVersion, hostChanges>>
adapterVars == <<lastProjectVersion, tsProjectVersion, files, scriptSnapshots,
                 sourceTsFileVersions, sourceVueFileVersions, virtualFileVersions>>
cacheVars == <<cachedSourceMaps, cachedTeleports, instances, given, returned>>
vars == <<hostFiles, hostProjectVersion, hostChanges,
          lastProjectVersion, tsProjectVersion, files, scriptSnapshots,
          sourceTsFileVersions, sourceVueFileVersions, virtualFileVersions,
          cachedSourceMaps, cachedTeleports, instances, given, returned,
          lastOp, result, pass, seenHost, parsedVersions>>

\* ------------------------------------------------------------ the raw host
hostGetProjectVersion == hostProjectVersion

\* host.isTsc is set by the command-line type checker only; the hosts of this
\* model are language-service hosts
hostIsTsc == FALSE

hostGetScriptFileNames == SelectSeq(FileOrder, LAMBDA f : hostFiles[f].listed)

hostGetScriptSnapshot(fileName) ==
    IF fileName \in Files THEN hostFiles[fileName].snapshot ELSE Undefined

\* versions are opaque strings: [version |-> n] is the string of the number n
hostGetScriptVersion(fileName) ==
    IF fileName \in Files THEN [version |-> hostFiles[fileName].version] ELSE [version |-> -1]

hostFileExists(fileName) ==
    fileName \in Files /\ hostFiles[fileName].snapshot # Undefined

\* ------------------------------------------------------- document registry
RECURSIVE forEachEmbeddeds(_)
\* the embedded files of a tree in the order forEachEmbeddeds visits them
forEachEmbeddeds(file) ==
    LET RECURSIVE children(_)
        children(s) == IF s = <<>> THEN <<>>
                       ELSE forEachEmbeddeds(Head(s)) \o children(Tail(s))
    IN <<file>> \o children(file.embeddeds)

\* the record `files` is the sequence of its entries [key, sourceFile,
\* languageModule] in the order the keys were inserted, which is the order
\* of Object.values(files)
registryIndex(reg, fileName) ==
    LET S == {i \in DOMAIN reg : reg[i].key = normalizePath(fileName)}
    IN IF S = {} THEN 0 ELSE CHOOSE i \in S : TRUE

registryGet(reg, fileName) ==
    IF registryIndex(reg, fileName) = 0 THEN Undefined
    ELSE reg[registryIndex(reg, fileName)]

registryHas(reg, fileName) == registryGet(reg, fileName) # Undefined

registryDelete(reg, fileName) ==
    SelectSeq(reg, LAMBDA e : e.key # normalizePath(fileName))

\* an assignment to a key that exists keeps the key's place
registrySet(reg, fileName, sourceFile, languageModule) ==
    LET entry == [key |-> normalizePath(fileName), sourceFile |-> sourceFile,
                  languageModule |-> languageModule]
    IN IF registryIndex(reg, fileName) = 0 THEN Append(reg, entry)
       ELSE [reg EXCEPT ![registryIndex(reg, fileName)] = entry]

registryAll(reg) == reg

\* sourceMapsByFileName: later entries overwrite earlier ones
RECURSIVE IndexEmbeddeds(_, _, _)
IndexEmbeddeds(sourceFile, embs, map) ==
    IF embs = <<>> THEN map
    ELSE IndexEmbeddeds(sourceFile, Tail(embs),
            MapSet(map, normalizePath(Head(embs).fileName),
                   [sourceFile |-> sourceFile, embedded |-> Head(embs)]))

RECURSIVE IndexAll(_, _)
IndexAll(entries, map) ==
    IF entries = <<>> THEN map
    ELSE IndexAll(Tail(entries),
            IndexEmbeddeds(Head(entries).sourceFile,
                           forEachEmbeddeds(Head(entries).sourceFile), map))

sourceMapsByFileName(reg) == IndexAll(registryAll(reg), EmptyMap)

fromEmbeddedFileName(reg, fileName) ==
    MapGet(sourceMapsByFileName(reg), normalizePath(fileName))

\* getSourceMap / getTeleport on a cache (WeakMap of WeakMaps) with n objects
\* created so far: the cache, the count and the translator returned; a new
\* translator object is the (n+1)-th object
CacheLookup(cache, n, file, mappings) ==
    LET map1 == IF MapHas(cache, file) THEN cache[file] ELSE EmptyMap
    IN IF MapHas(map1, mappings)
       THEN [cache |-> MapSet(cache, file, map1), instances |-> n, value |-> map1[mappings]]
       ELSE [cache |-> MapSet(cache, file, MapSet(map1, mappings, n + 1)),
             instances |-> n + 1, value |-> n + 1]

getSourceMap(cache, n, file, mappings) == CacheLookup(cache, n, file, mappings)

getTeleport(cache, n, file, mappings) == CacheLookup(cache, n, file, mappings)

\* the document's entry left where it is
onSourceFileUpdatedKeeps(cache, file) == cache

\* onSourceFileUpdated(file) on one of the two caches
onSourceFileUpdated(cache, file) == MapDelete(cache, file)

\* ------------------------------------------------------------- the adapter
\* the adapter's state as one record, for the operators below
Adapter ==
    [lastProjectVersion |-> lastProjectVersion, tsProjectVersion |-> tsProjectVersion,
     files |-> files, scriptSnapshots |-> scriptSnapshots,
     sourceTsFileVersions |-> sourceTsFileVersions,
     sourceVueFileVersions |-> sourceVueFileVersions,
     virtualFileVersions |-> virtualFileVersions]

SeqRemove(s, x) == SelectSeq(s, LAMBDA y : y # x)

\* for (const languageModule of languageModules) { createSourceFile ... break }
RECURSIVE TryCreate(_, _, _)
TryCreate(i, fileName, snapshot) ==
    IF i > Len(languageModules) THEN [outcome |-> "none"]
    ELSE LET o == CreateOutcome(languageModules[i], fileName, snapshot)
         IN IF o = "throw" THEN [outcome |-> "throw"]
            ELSE IF o = "doc"
            THEN [outcome |-> "doc", languageModule |-> languageModules[i],
                  sourceFile |-> ParseTree(languageModules[i], fileName, snapshot)]
            ELSE TryCreate(i + 1, fileName, snapshot)

\* update(), "// .vue": the loop over documentRegistry.all()
RECURSIVE UpdateVueLoop(_, _)
UpdateVueLoop(entries, st) ==
    IF entries = <<>> THEN st
    ELSE
      LET fileName == Head(entries).sourceFile.fileName
          remains == SeqRemove(st.checkRemains, fileName)
          snapshot == hostGetScriptSnapshot(fileName)
          newVersion == hostGetScriptVersion(fileName)
      IN IF snapshot = Undefined
         THEN UpdateVueLoop(Tail(entries),
                [st EXCEPT !.checkRemains = remains,
                           !.files = registryDelete(@, fileName),
                           !.deleted = @ \cup {fileName},
                           !.tsFileUpdated = TRUE])
         ELSE IF MapGet(st.sourceVueFileVersions, fileName) # newVersion
         THEN UpdateVueLoop(Tail(entries),
                [st EXCEPT !.checkRemains = remains,
                           !.sourceVueFileVersions = MapSet(@, fileName, newVersion),
                           !.sourceFilesShouldUpdate = Append(@,
                               [key |-> normalizePath(fileName),
                                languageModule |-> Head(entries).languageModule,
                                snapshot |-> snapshot])])
         ELSE UpdateVueLoop(Tail(entries), [st EXCEPT !.checkRemains = remains])

\* update(), "// add": the loop over [...checkRemains]
RECURSIVE UpdateAddLoop(_, _)
UpdateAddLoop(names, st) ==
    IF names = <<>> THEN st
    ELSE
      LET fileName == Head(names)
          snapshot == hostGetScriptSnapshot(fileName)
          made == TryCreate(1, fileName, snapshot)
      IN IF snapshot = Undefined
         THEN UpdateAddLoop(Tail(names), st)
         ELSE IF made.outcome = "none"
         THEN UpdateAddLoop(Tail(names), [st EXCEPT !.called = TRUE])
         ELSE IF made.outcome = "throw"
         THEN [st EXCEPT !.thrown = TRUE, !.called = TRUE]
         ELSE UpdateAddLoop(Tail(names),
                [st EXCEPT !.called = TRUE,
                           !.sourceVueFileVersions =
                               MapSet(@, made.sourceFile.fileName, hostGetScriptVersion(fileName)),
                           !.files = registrySet(@, fileName, made.sourceFile, made.languageModule),
                           !.created = @ \cup {fileName},
                           !.checkRemains = SeqRemove(@, fileName)])

\* update(), "// .ts / .js / .d.ts / .json ...": the loop over [...sourceTsFileVersions]
RECURSIVE UpdateTsLoop(_, _)
UpdateTsLoop(names, st) ==
    IF names = <<>> THEN st
    ELSE
      LET oldTsFileName == Head(names)
          oldTsFileVersion == st.sourceTsFileVersions[oldTsFileName]
          newVersion == hostGetScriptVersion(oldTsFileName)
      IN IF oldTsFileVersion # newVersion
         THEN UpdateTsLoop(Tail(names),
                [st EXCEPT !.sourceTsFileVersions =
                               IF oldTsFileName \notin SeqRange(st.checkRemains)
                                  /\ hostGetScriptSnapshot(oldTsFileName) = Undefined
                               THEN MapDelete(@, oldTsFileName)
                               ELSE MapSet(@, oldTsFileName, newVersion),
                           !.tsFileUpdated = TRUE])
         ELSE UpdateTsLoop(Tail(names), st)

\* update(): the loop over checkRemains that adds the new native files
RECURSIVE UpdateNowLoop(_, _)
UpdateNowLoop(names, st) ==
    IF names = <<>> THEN st
    ELSE
      LET nowFileName == Head(names)
      IN IF ~MapHas(st.sourceTsFileVersions, nowFileName)
         THEN UpdateNowLoop(Tail(names),
                [st EXCEPT !.sourceTsFileVersions =
                               MapSet(@, nowFileName, hostGetScriptVersion(nowFileName)),
                           !.tsFileUpdated = TRUE])
         ELSE UpdateNowLoop(Tail(names), st)

\* the names of a tree's files, and the host-visible scripts (embedded.kind truthy)
EmbeddedNames(sourceFile) ==
    {forEachEmbeddeds(sourceFile)[i].fileName : i \in DOMAIN forEachEmbeddeds(sourceFile)}

RECURSIVE CollectScripts(_, _)
CollectScripts(embs, scripts) ==
    IF embs = <<>> THEN scripts
    ELSE CollectScripts(Tail(embs),
            IF Head(embs).kind # 0
            THEN MapSet(scripts, Head(embs).fileName, [text |-> Head(embs).text])
            ELSE scripts)

\* LanguageModule.updateSourceFile: the tree is rebuilt in place
UpdateSourceFile(languageModule, sourceFile, snapshot) ==
    ParseTree(languageModule, sourceFile.fileName, snapshot)

\* only the numbers of scripts compared
ScriptsChangedByCount(tsFileUpdated, oldScripts, newScripts) ==
    ~tsFileUpdated /\ Cardinality(DOMAIN oldScripts) # Cardinality(DOMAIN newScripts)

\* the condition of lines 229-233, with && binding tighter than ||
ScriptsChanged(tsFileUpdated, oldScripts, newScripts) ==
    \/ /\ ~tsFileUpdated
       /\ Cardinality(DOMAIN oldScripts) # Cardinality(DOMAIN newScripts)
    \/ \E fileName \in DOMAIN oldScripts :
          oldScripts[fileName] # MapGet(newScripts, fileName)

\* update(): the loop over sourceFilesShouldUpdate
RECURSIVE UpdateReparseLoop(_, _)
UpdateReparseLoop(queue, st) ==
    IF queue = <<>> THEN st
    ELSE
      LET key == Head(queue).key
          sourceFile == registryGet(st.files, key).sourceFile
          oldScripts == IF ~st.tsFileUpdated
                        THEN CollectScripts(forEachEmbeddeds(sourceFile), EmptyMap)
                        ELSE EmptyMap
          updated == UpdateSourceFile(Head(queue).languageModule, sourceFile,
                                      Head(queue).snapshot)
          newScripts == IF ~st.tsFileUpdated
                        THEN CollectScripts(forEachEmbeddeds(updated), EmptyMap)
                        ELSE EmptyMap
      IN UpdateReparseLoop(Tail(queue),
            [st EXCEPT !.called = TRUE,
                       !.virtualFileVersions = MapDeleteAll(@, EmbeddedNames(sourceFile)),
                       !.files = registrySet(@, key, updated, Head(queue).languageModule),
                       !.tsFileUpdated =
                           IF ScriptsChanged(@, oldScripts, newScripts) THEN TRUE ELSE @])

\* [...map]: the keys of a Map; the passes over them do not depend on the order
MapKeys(m) == SelectSeq(FileOrder, LAMBDA k : k \in DOMAIN m)

NoPass ==
    [ran |-> FALSE, thrown |-> FALSE, tsFileUpdated |-> FALSE,
     queued |-> {}, deleted |-> {}, created |-> {}]

\* a pass on every call
ShouldUpdateAlways(newProjectVersion, last) == TRUE

\* update(): const shouldUpdate
ShouldUpdate(newProjectVersion, last) ==
    newProjectVersion = Undefined \/ newProjectVersion # last

\* update(): returns the adapter's new state, what the pass did, and whether
\* a language module was called (createSourceFile or updateSourceFile)
update(a) ==
    LET newProjectVersion == hostGetProjectVersion
        shouldUpdate == ShouldUpdate(newProjectVersion, a.lastProjectVersion)
        st0 == [files |-> a.files,
                sourceVueFileVersions |-> a.sourceVueFileVersions,
                sourceTsFileVersions |-> a.sourceTsFileVersions,
                virtualFileVersions |-> a.virtualFileVersions,
                checkRemains |-> hostGetScriptFileNames,
                sourceFilesShouldUpdate |-> <<>>,
                tsFileUpdated |-> FALSE, thrown |-> FALSE, called |-> FALSE,
                deleted |-> {}, created |-> {}]
        st1 == UpdateVueLoop(registryAll(a.files), st0)
        st2 == IF st1.sourceFilesShouldUpdate = <<>>
               THEN [st1 EXCEPT !.tsFileUpdated = TRUE] ELSE st1
        st3 == UpdateAddLoop(st2.checkRemains, st2)
        st4 == UpdateTsLoop(MapKeys(st3.sourceTsFileVersions), st3)
        st5 == UpdateNowLoop(st4.checkRemains, st4)
        st6 == UpdateReparseLoop(st5.sourceFilesShouldUpdate, st5)
        end == IF st3.thrown THEN st3 ELSE st6
        info == [ran |-> TRUE, thrown |-> end.thrown, tsFileUpdated |-> end.tsFileUpdated,
                 queued |-> {end.sourceFilesShouldUpdate[i].key :
                                i \in DOMAIN end.sourceFilesShouldUpdate},
                 deleted |-> end.deleted, created |-> end.created]
    IN IF ~shouldUpdate
       THEN [a |-> [a EXCEPT !.lastProjectVersion = newProjectVersion], pass |-> NoPass,
             called |-> FALSE]
       ELSE [a |-> [a EXCEPT !.lastProjectVersion = newProjectVersion,
                             !.files = end.files,
                             !.sourceVueFileVersions = end.sourceVueFileVersions,
                             !.sourceTsFileVersions = end.sourceTsFileVersions,
                             !.virtualFileVersions = end.virtualFileVersions,
                             !.tsProjectVersion =
                                 IF ~end.thrown /\ end.tsFileUpdated THEN @ + 1 ELSE @],
             pass |-> info, called |-> end.called]

\* ------------------------------------------------- the synthesized surface
Return(v) == [value |-> v]
Threw == [threw |-> TRUE]

\* ts.sys.createHash: a digest of the text, taken to be free of collisions
createHash(text) == [hash |-> text]

\* getScriptFileNames(): the insertion-ordered Set, spread into an array
RECURSIVE AddHostVisible(_, _)
AddHostVisible(embs, tsFileNames) ==
    IF embs = <<>> THEN tsFileNames
    ELSE AddHostVisible(Tail(embs),
            IF Head(embs).kind = TypeScriptHostFile
            THEN SetAdd(tsFileNames, Head(embs).fileName) ELSE tsFileNames)

RECURSIVE AddVirtual(_, _)
AddVirtual(entries, tsFileNames) ==
    IF entries = <<>> THEN tsFileNames
    ELSE AddVirtual(Tail(entries),
            AddHostVisible(forEachEmbeddeds(Head(entries).sourceFile), tsFileNames))

\* every name of the host added, a registered document's own name included
RECURSIVE AddNativeUnfiltered(_, _, _)
AddNativeUnfiltered(reg, names, tsFileNames) ==
    IF names = <<>> THEN tsFileNames
    ELSE AddNativeUnfiltered(reg, Tail(names), SetAdd(tsFileNames, Head(names)))

RECURSIVE AddNative(_, _, _)
AddNative(reg, names, tsFileNames) ==
    IF names = <<>> THEN tsFileNames
    ELSE AddNative(reg, Tail(names),
            IF ~registryHas(reg, Head(names))
            THEN SetAdd(tsFileNames, Head(names)) ELSE tsFileNames)

getScriptFileNames(a) ==
    AddNative(a.files, hostGetScriptFileNames, AddVirtual(registryAll(a.files), <<>>))

\* getScriptVersion(fileName): the adapter's new state and the version
getScriptVersion(a, fileName) ==
    LET mapped == fromEmbeddedFileName(a.files, fileName)
        hashed == createHash(mapped.embedded.text)
        version == IF hostIsTsc
                   THEN [version |-> hostGetScriptVersion(mapped.sourceFile.fileName).version,
                         hash |-> hashed.hash]
                   ELSE hashed
    IN IF mapped # Undefined
       THEN IF MapHas(a.virtualFileVersions, mapped.embedded.fileName)
            THEN [a |-> a, value |-> a.virtualFileVersions[mapped.embedded.fileName]]
            ELSE [a |-> [a EXCEPT !.virtualFileVersions =
                                      MapSet(@, mapped.embedded.fileName, version)],
                  value |-> version]
       ELSE [a |-> a, value |-> hostGetScriptVersion(fileName)]

\* getScriptSnapshot(fileName): the adapter's new state and the snapshot
getScriptSnapshot(a, fileName) ==
    LET v == getScriptVersion(a, fileName)
        cache == MapGet(v.a.scriptSnapshots, toLowerCase(fileName))
        mapped == fromEmbeddedFileName(v.a.files, fileName)
        tsScript == hostGetScriptSnapshot(fileName)
        store(snapshot) ==
            [a |-> [v.a EXCEPT !.scriptSnapshots =
                                   MapSet(@, toLowerCase(fileName),
                                          [version |-> v.value, snapshot |-> snapshot])],
             value |-> snapshot]
    IN IF cache # Undefined /\ cache.version = v.value
       THEN [a |-> v.a, value |-> cache.snapshot]
       ELSE IF mapped # Undefined THEN store([text |-> mapped.embedded.text])
       ELSE IF tsScript # Undefined THEN store(tsScript)
       ELSE [a |-> v.a, value |-> Undefined]

\* fileExists(fileName): the adapter's new state and the answer, or the
\* exception of a language module
fileExists(a, fileName) ==
    LET vueFileName == StripExtension(fileName)
        scriptSnapshot == hostGetScriptSnapshot(vueFileName)
        made == IF registryGet(a.files, vueFileName) = Undefined
                   /\ scriptSnapshot # Undefined
                THEN TryCreate(1, vueFileName, scriptSnapshot)
                ELSE [outcome |-> "none"]
        reg == IF made.outcome = "doc"
               THEN registrySet(a.files, vueFileName, made.sourceFile, made.languageModule)
               ELSE a.files
    IN IF made.outcome = "throw" THEN [a |-> a, threw |-> TRUE]
       ELSE [a |-> [a EXCEPT !.files = reg],
             value |-> IF fromEmbeddedFileName(reg, fileName) # Undefined
                       THEN TRUE ELSE hostFileExists(fileName)]

\* the names the language service asks about
QueryNames == {AW \o <<".", "ts">>, BT}

Queries ==
    {[op |-> o, arg |-> <<>>] : o \in {"getScriptFileNames", "getProjectVersion"}}
    \cup {[op |-> o, arg |-> n] :
             o \in {"getScriptVersion", "getScriptSnapshot"}, n \in {AW \o <<".", "ts">>}}
    \cup {[op |-> "fileExists", arg |-> n] : n \in QueryNames}
    \cup {[op |-> "get", arg |-> <<k>>] : k \in PassThroughKeys}

\* target[property] of the surface, called on the reconciled state
Serve(q, a) ==
    CASE q.op = "getScriptFileNames" -> [a |-> a, value |-> getScriptFileNames(a)]
      [] q.op = "getProjectVersion" -> [a |-> a, value |-> a.tsProjectVersion]
      [] q.op = "getScriptVersion" -> getScriptVersion(a, q.arg)
      [] q.op = "getScriptSnapshot" -> getScriptSnapshot(a, q.arg)
      [] q.op = "fileExists" -> fileExists(a, q.arg)
      [] OTHER -> [a |-> a, value |-> HostGet(ProxyChain, q.arg[1])]

\* ---------------------------------------------------------------- actions
\* SourceFile objects and mapping tables, by identity
Docs == {"d1", "d2"}
Tables == {"t1", "t2"}
CacheKeys == {"getSourceMap", "getTeleport"} \X Docs \X Tables

HostOp == [op |-> "host", arg |-> <<>>]
NoResult == [none |-> TRUE]

Absent == [listed |-> FALSE, snapshot |-> Undefined, version |-> 0]
Present == [listed |-> TRUE, snapshot |-> ContentBase, version |-> 1]
\* listed by the host (a root file of the project) but not there to be read
Missing == [listed |-> TRUE, snapshot |-> Undefined, version |-> 0]

\* the mapping caches of a registry nobody has asked for a translator
NoTranslators ==
    /\ cachedSourceMaps = EmptyMap
    /\ cachedTeleports = EmptyMap
    /\ instances = 0
    /\ given = [k \in CacheKeys |-> 0]
    /\ returned = {}

Init ==
    /\ hostFiles \in {h \in [Files -> {Absent, Present, Missing}] : h[BT] # Missing /\ h[CW] # Missing}
    /\ hostProjectVersion \in {Undefined, [version |-> 0]}
    /\ hostChanges = 0
    /\ lastProjectVersion = Undefined
    /\ tsProjectVersion = 0
    /\ files = <<>>
    /\ scriptSnapshots = EmptyMap
    /\ sourceTsFileVersions = EmptyMap
    /\ sourceVueFileVersions = EmptyMap
    /\ virtualFileVersions = EmptyMap
    /\ NoTranslators
    /\ lastOp = HostOp
    /\ result = NoResult
    /\ pass = NoPass
    /\ seenHost = hostFiles
    /\ parsedVersions = EmptyMap

\* every change of the host is one tick of its project version, when it has one
HostChanged(newFiles) ==
    /\ hostChanges < MaxHostChanges
    /\ hostFiles' = newFiles
    /\ hostChanges' = hostChanges + 1
    /\ hostProjectVersion' = IF hostProjectVersion = Undefined THEN Undefined
                             ELSE [version |-> hostProjectVersion.version + 1]
    /\ lastOp' = HostOp
    /\ result' = NoResult
    /\ pass' = NoPass
    /\ UNCHANGED <<seenHost, parsedVersions, lastProjectVersion, tsProjectVersion, files, scriptSnapshots,
                   sourceTsFileVersions, sourceVueFileVersions, virtualFileVersions>>
    /\ UNCHANGED cacheVars

\* the file is written (its version changes, its text possibly not)
HostWrite ==
    \E f \in Files : \E c \in ContentsOf(f) :
        HostChanged([hostFiles EXCEPT ![f].snapshot = c, ![f].version = @ + 1])

\* the file is deleted: no snapshot any more
HostDelete ==
    \E f \in Files : \E bump \in {0, 1} :
        /\ hostFiles[f].snapshot # Undefined
        /\ HostChanged([hostFiles EXCEPT ![f].snapshot = Undefined, ![f].version = @ + bump])

\* the file enters or leaves the host's list of script files
HostList ==
    \E f \in Files :
        HostChanged([hostFiles EXCEPT ![f].listed = ~@])

\* one property access on typescriptLanguageServiceHost, and the call
Query ==
    \E u \in {update(Adapter)} :
    \E q \in Queries :
    \E r \in {IF u.pass.thrown THEN [a |-> u.a, threw |-> TRUE] ELSE Serve(q, u.a)} :
        /\ tsProjectVersion < MaxTsVersion
        /\ lastProjectVersion' = r.a.lastProjectVersion
        /\ tsProjectVersion' = r.a.tsProjectVersion
        /\ files' = r.a.files
        /\ scriptSnapshots' = r.a.scriptSnapshots
        /\ sourceTsFileVersions' = r.a.sourceTsFileVersions
        /\ sourceVueFileVersions' = r.a.sourceVueFileVersions
        /\ virtualFileVersions' = r.a.virtualFileVersions
        /\ lastOp' = q
        /\ result' = IF "threw" \in DOMAIN r THEN Threw ELSE Return(r.value)
        /\ pass' = u.pass
        /\ seenHost' = IF u.pass.ran THEN hostFiles ELSE seenHost
        /\ parsedVersions' =
              [f \in {g \in Files : registryHas(r.a.files, g)} |->
                  IF \/ ~registryHas(files, f)
                     \/ f \in u.pass.deleted
                     \/ (normalizePath(f) \in u.pass.queued /\ ~u.pass.thrown)
                  THEN hostFiles[f].version ELSE parsedVersions[f]]
        /\ UNCHANGED hostVars
        /\ UNCHANGED cacheVars

Next == HostWrite \/ HostDelete \/ HostList \/ Query

Spec == Init /\ [][Next]_vars

\* ------------------------------------- the document registry on its own
\* a registry whose host has no files
InitRegistry ==
    /\ Init
    /\ hostFiles = [f \in Files |-> Absent]
    /\ hostProjectVersion = Undefined

\* what a translator request leaves behind
Translated(op, d, t, r) ==
    /\ r.instances <= MaxInstances
    /\ instances' = r.instances
    /\ given' = [given EXCEPT ![<<op, d, t>>] = r.value]
    /\ returned' = returned \cup {r.value}
    /\ lastOp' = [op |-> op, arg |-> <<d, t>>]
    /\ result' = Return(r.value)
    /\ UNCHANGED <<hostVars, adapterVars, pass, seenHost, parsedVersions>>

GetSourceMap ==
    \E d \in Docs : \E t \in Tables :
    \E r \in {getSourceMap(cachedSourceMaps, instances, d, t)} :
        /\ cachedSourceMaps' = r.cache
        /\ Translated("getSourceMap", d, t, r)
        /\ UNCHANGED cachedTeleports

GetTeleport ==
    \E d \in Docs : \E t \in Tables :
    \E r \in {getTeleport(cachedTeleports, instances, d, t)} :
        /\ cachedTeleports' = r.cache
        /\ Translated("getTeleport", d, t, r)
        /\ UNCHANGED cachedSourceMaps

OnSourceFileUpdated ==
    \E d \in Docs :
        /\ cachedSourceMaps' = onSourceFileUpdated(cachedSourceMaps, d)
        /\ cachedTeleports' = onSourceFileUpdated(cachedTeleports, d)
        /\ given' = [k \in CacheKeys |-> IF k[2] = d THEN 0 ELSE given[k]]
        /\ lastOp' = [op |-> "onSourceFileUpdated", arg |-> <<d>>]
        /\ result' = NoResult
        /\ UNCHANGED <<instances, returned, hostVars, adapterVars, pass, seenHost,
                       parsedVersions>>

\* the names the registry is addressed by: three spellings of one identity,
\* and another identity
UpperName == <<"A", "/", "B", ".", "w">>
LowerName == <<"a", "/", "b", ".", "w">>
BackslashName == <<"a", "\\", "b", ".", "w">>
RegistryNames == {UpperName, LowerName, BackslashName, CW}

\* everything but the registry's record of documents
registryFrame ==
    <<hostVars, cacheVars, lastProjectVersion, tsProjectVersion, scriptSnapshots,
      sourceTsFileVersions, sourceVueFileVersions, virtualFileVersions, pass, seenHost,
      parsedVersions>>

RegistrySet ==
    \E n \in RegistryNames : \E c \in {ContentBase, ContentStyle} :
        /\ files' = registrySet(files, n, ParseTree("M1", n, c), "M1")
        /\ lastOp' = [op |-> "set", arg |-> n]
        /\ result' = Return([sourceFile |-> ParseTree("M1", n, c), languageModule |-> "M1"])
        /\ UNCHANGED registryFrame

RegistryDelete ==
    \E n \in RegistryNames :
        /\ files' = registryDelete(files, n)
        /\ lastOp' = [op |-> "delete", arg |-> n]
        /\ result' = Return(TRUE)
        /\ UNCHANGED registryFrame

RegistryGet ==
    \E n \in RegistryNames :
        /\ lastOp' = [op |-> "get", arg |-> n]
        /\ result' = Return(registryGet(files, n))
        /\ UNCHANGED <<files, registryFrame>>

RegistryHas ==
    \E n \in RegistryNames :
        /\ lastOp' = [op |-> "has", arg |-> n]
        /\ result' = Return(registryHas(files, n))
        /\ UNCHANGED <<files, registryFrame>>

NextRegistry == RegistrySet \/ RegistryDelete \/ RegistryGet \/ RegistryHas

SpecRegistry == InitRegistry /\ [][NextRegistry]_vars

NextMappings == GetSourceMap \/ GetTeleport \/ OnSourceFileUpdated

SpecMappings == InitRegistry /\ [][NextMappings]_vars

\* ----------------------------------------------------------------- claims
\* a step that is one query on the surface
QueryStep == lastOp' \in Queries

\* the queries of the synthesized surface itself
SurfaceQueries == {q \in Queries : q.op # "get"}

\* the host-visible files of a tree: identity -> text
HostVisible(sourceFile) ==
    LET embs == forEachEmbeddeds(sourceFile)
    IN {<<embs[i].fileName, embs[i].text>> : i \in {j \in DOMAIN embs : embs[j].kind = TypeScriptHostFile}}

\* C1: the same query asked twice with no change of the host in between
\* returns the same result both times, and the second call leaves the
\* project-version counter where the first call left it.
C1_Idempotence ==
    [][(lastOp \in SurfaceQueries /\ lastOp' = lastOp /\ QueryStep)
        => (result' = result /\ tsProjectVersion' = tsProjectVersion)]_vars

\* the host's version of f differs from the one the last reconcile pass saw
VersionChanged(f) == hostFiles[f].version # seenHost[f].version

\* this step's pass re-parsed the registered document f in place and its
\* host-visible files are the same, name by name and text by text
ReparsedSame(f) ==
    /\ registryHas(files, f) /\ registryHas(files', f)
    /\ VersionChanged(f)
    /\ normalizePath(f) \in pass'.queued
    /\ HostVisible(registryGet(files', f).sourceFile)
           = HostVisible(registryGet(files, f).sourceFile)

\* C2: a pass in which one registered composite document changed its host
\* version and was re-parsed to the same host-visible files, and no other
\* file of the host changed, does not advance the project-version counter.
C2_Suppression ==
    [][(QueryStep /\ pass'.ran
        /\ \E f \in Files :
              /\ ReparsedSame(f)
              /\ \A g \in Files \ {f} : hostFiles[g] = seenHost[g])
        => tsProjectVersion' = tsProjectVersion]_vars

\* C3: the project-version counter never decreases; a reconcile pass leaves
\* it unchanged or exactly one greater, and one greater exactly when the
\* pass marked the surface dirty.
C3_VersionMonotonic ==
    [][/\ tsProjectVersion' >= tsProjectVersion
       /\ (QueryStep /\ pass'.ran) =>
             /\ tsProjectVersion' \in {tsProjectVersion, tsProjectVersion + 1}
             /\ (tsProjectVersion' = tsProjectVersion + 1) <=> pass'.tsFileUpdated]_vars

\* the embedded file a name resolves to in the registry, or Undefined
Resolved(fileName) == fromEmbeddedFileName(files, fileName)

\* C4: getScriptVersion of a name that resolves to an embedded file returns
\* the hash of that embedded file's current text.
C4_ContentAddressedVersion ==
    (lastOp.op = "getScriptVersion" /\ result # Threw /\ Resolved(lastOp.arg) # Undefined)
        => result.value = createHash(Resolved(lastOp.arg).embedded.text)

\* C5: getScriptSnapshot of a name that resolves to an embedded file returns
\* a snapshot of that embedded file's current text.
C5_SnapshotIsCurrentText ==
    (lastOp.op = "getScriptSnapshot" /\ result # Threw /\ Resolved(lastOp.arg) # Undefined)
        => result.value = [text |-> Resolved(lastOp.arg).embedded.text]

\* the registered documents' trees
RegisteredTrees == {files[k].sourceFile : k \in DOMAIN files}

\* the names of the host-visible embedded files of all registered documents
VirtualNames == UNION {{e[1] : e \in HostVisible(t)} : t \in RegisteredTrees}

\* the names the host lists that are not the identity of a registered document
NativeNames ==
    {f \in Files : hostFiles[f].listed /\ ~registryHas(files, f)}

\* C6: getScriptFileNames returns exactly the host-visible embedded files of
\* the registered documents and the host's files that are not registered
\* documents; a registered document's own name is not returned, its
\* host-visible files are.
C6_FileNameEnumeration ==
    (lastOp.op = "getScriptFileNames" /\ result # Threw) =>
        /\ SeqRange(result.value) = VirtualNames \cup NativeNames
        /\ \A t \in RegisteredTrees :
              /\ t.fileName \notin SeqRange(result.value)
              /\ \A e \in HostVisible(t) : e[1] \in SeqRange(result.value)

\* a registered document with a host-visible file was enumerated next to a
\* native file, while the host lists the document's own name
C6_Witness ==
    /\ lastOp.op = "getScriptFileNames" /\ result # Threw
    /\ registryHas(files, AW) /\ hostFiles[AW].listed
    /\ AW \o <<".", "ts">> \in SeqRange(result.value)
    /\ BT \in SeqRange(result.value)

\* the first module, in the order of the list, whose createSourceFile
\* returns a document; Undefined when none does
FirstDoc(modules, fileName, snapshot) ==
    LET S == {i \in DOMAIN modules : CreateOutcome(modules[i], fileName, snapshot) = "doc"}
    IN IF S = {} THEN Undefined
       ELSE [languageModule |-> modules[CHOOSE i \in S : \A j \in S : i <= j]]

\* C7: a document created by a reconcile pass or by the existence check is
\* recorded with the first module, in registration order, that returns a
\* document for the file.
C7_FirstMatchInRegistrationOrder ==
    [][QueryStep =>
        \A f \in Files :
            (~registryHas(files, f) /\ registryHas(files', f)) =>
                [languageModule |-> registryGet(files', f).languageModule]
                    = FirstDoc(RegisteredModules, f, hostGetScriptSnapshot(f))]_vars

\* the modules that override a host operation, by position in the registration order
Overriding(key) == {i \in DOMAIN RegisteredModules : key \in ProxyApis(RegisteredModules[i])}

\* C8 as stated: of the modules that override a host operation, the one
\* registered last answers it; an operation no module overrides is answered
\* by the raw host.
C8_LaterModuleFirst ==
    lastOp.op = "get" /\ result # Threw =>
        LET S == Overriding(lastOp.arg[1])
        IN result.value = IF S = {} THEN "host"
                          ELSE RegisteredModules[CHOOSE i \in S : \A j \in S : j <= i]

\* C8 as the code has it: of the modules that override a host operation, the
\* one registered first answers it (the proxies are wrapped in reverse
\* registration order, the first module's outermost); an operation no module
\* overrides is answered by the raw host.
C8_EarlierModuleFirst ==
    lastOp.op = "get" /\ result # Threw =>
        LET S == Overriding(lastOp.arg[1])
        IN result.value = IF S = {} THEN "host"
                          ELSE RegisteredModules[CHOOSE i \in S : \A j \in S : i <= j]

\* an operation that both modules override was answered by the first module
C8_Witness ==
    /\ lastOp = [op |-> "get", arg |-> <<"getCompilationSettings">>]
    /\ Cardinality(Overriding("getCompilationSettings")) = 2
    /\ result = Return("M1")

\* some module, skipping those that throw, would return a document
SomeModuleAccepts(fileName, snapshot) ==
    \E i \in DOMAIN RegisteredModules :
        CreateOutcome(RegisteredModules[i], fileName, snapshot) = "doc"

\* C9: a module that throws is passed over like one that declines: no query
\* ends in an exception, every pass completes, and after a pass every listed
\* file that some module accepts is a registered document.
C9_ThrowIsDecline ==
    lastOp \in Queries =>
        /\ result # Threw
        /\ ~pass.thrown
        /\ pass.ran =>
              \A f \in Files :
                  (hostFiles[f].listed /\ hostFiles[f].snapshot # Undefined
                   /\ SomeModuleAccepts(f, hostFiles[f].snapshot)) => registryHas(files, f)

\* the virtual files of a tree: its embedded files other than the root
VirtualFilesOf(sourceFile) == EmbeddedNames(sourceFile) \ {sourceFile.fileName}

\* C10: when the snapshot of a registered document is gone and the host's
\* project version has changed, the next query leaves the registry without
\* the document, none of its virtual files resolves or is enumerated, and
\* the project-version counter has advanced.
C10_Deletion ==
    [][QueryStep =>
        \A f \in Files :
            (/\ registryHas(files, f)
             /\ hostFiles[f].snapshot = Undefined
             /\ hostProjectVersion # Undefined
             /\ hostProjectVersion # lastProjectVersion) =>
                /\ ~registryHas(files', f)
                /\ registryGet(files', f) = Undefined
                /\ \A n \in VirtualFilesOf(registryGet(files, f).sourceFile) :
                      /\ fromEmbeddedFileName(files', n) = Undefined
                      /\ n \notin SeqRange(getScriptFileNames(Adapter'))
                /\ tsProjectVersion' > tsProjectVersion]_vars

\* every registered module returns no document for the file's snapshot
DeclinedByAll(f) ==
    /\ hostFiles[f].snapshot # Undefined
    /\ \A i \in DOMAIN RegisteredModules :
          CreateOutcome(RegisteredModules[i], f, hostFiles[f].snapshot) = "none"

\* how many times a name occurs in a list
Occurrences(s, x) == Cardinality({i \in DOMAIN s : s[i] = x})

\* C11: after every reconcile pass, a file the host lists and every module
\* declines is not in the registry, is tracked in the native-file version
\* table, and is enumerated exactly once.
C11_AllDecline ==
    (lastOp \in Queries /\ pass.ran) =>
        \A f \in Files :
            (hostFiles[f].listed /\ DeclinedByAll(f)) =>
                /\ ~registryHas(files, f)
                /\ MapHas(sourceTsFileVersions, f)
                /\ Occurrences(getScriptFileNames(Adapter), f) = 1


\* C12: a translator request for a (document, table) pair returns the
\* translator last returned for the pair when the document has not been
\* invalidated since, and otherwise a translator never returned before; an
\* invalidation of one document leaves what a request for any other
\* document's pair returns as it was.
C12_MappingCacheIdentity ==
    [][/\ lastOp'.op \in {"getSourceMap", "getTeleport"} =>
             LET k == <<lastOp'.op, lastOp'.arg[1], lastOp'.arg[2]>>
             IN IF given[k] # 0 THEN result'.value = given[k]
                ELSE result'.value \notin returned
       /\ lastOp'.op = "onSourceFileUpdated" =>
             \A k \in CacheKeys :
                 (k[2] # lastOp'.arg[1] /\ given[k] # 0) =>
                     CacheLookup(IF k[1] = "getSourceMap" THEN cachedSourceMaps'
                                 ELSE cachedTeleports', instances', k[2], k[3]).value
                         = given[k]]_vars

\* d1's translator was returned anew after d1 was invalidated, while d2 kept
\* the translator it was given before that
C12_Witness ==
    /\ lastOp = [op |-> "getSourceMap", arg |-> <<"d1", "t1">>]
    /\ result = Return(3)
    /\ given[<<"getSourceMap", "d2", "t1">>] = 2
    /\ returned = {1, 2, 3}


\* a character with its case folded and its backslash replaced
FoldedChar(t) ==
    CASE t = "A" -> "a" [] t = "B" -> "b" [] t = "W" -> "w" [] t = "\\" -> "/" [] OTHER -> t

\* two file identities are equal after replacing backslashes and folding case
SameIdentity(n1, n2) ==
    /\ Len(n1) = Len(n2)
    /\ \A i \in DOMAIN n1 : FoldedChar(n1[i]) = FoldedChar(n2[i])

\* C13: names that are equal after replacing backslashes and folding case
\* address the same entry: get and has answer alike for them, a set through
\* one is found through every other, a delete through one removes it for
\* every other, and the registry never holds two documents for one
\* normalized identity.
C13_Normalization ==
    /\ \A n1, n2 \in RegistryNames :
          SameIdentity(n1, n2) =>
              /\ registryGet(files, n1) = registryGet(files, n2)
              /\ registryHas(files, n1) = registryHas(files, n2)
    /\ \A i, j \in DOMAIN files :
          SameIdentity(files[i].key, files[j].key) => i = j
    /\ lastOp.op = "set" =>
          \A n \in RegistryNames :
              SameIdentity(n, lastOp.arg) =>
                  /\ registryHas(files, n)
                  /\ registryGet(files, n).sourceFile = result.value.sourceFile
    /\ lastOp.op = "delete" =>
          \A n \in RegistryNames :
              SameIdentity(n, lastOp.arg) => ~registryHas(files, n)
    /\ lastOp.op = "get" =>
          \A n \in RegistryNames :
              SameIdentity(n, lastOp.arg) => result.value = registryGet(files, n)

\* a document set under one spelling was found under another
C13_Witness ==
    /\ lastOp = [op |-> "get", arg |-> BackslashName]
    /\ result.value # Undefined
    /\ result.value.sourceFile.fileName = UpperName
    /\ Len(files) = 2


\* C14: from every state, update() on a host whose project version is the
\* one the previous call saw leaves the registry, the version tables, the
\* snapshot cache and the counter as they are and calls no language module;
\* on a host with no project version it runs the pass.
C14_ReconcileGating ==
    /\ (hostProjectVersion # Undefined /\ hostProjectVersion = lastProjectVersion) =>
          /\ update(Adapter).a = Adapter
          /\ ~update(Adapter).pass.ran
          /\ ~update(Adapter).called
    /\ hostProjectVersion = Undefined => update(Adapter).pass.ran

\* a query on a host with files was served with the pass skipped
C14_Witness ==
    /\ lastOp \in Queries
    /\ hostProjectVersion # Undefined /\ hostProjectVersion = lastProjectVersion
    /\ ~pass.ran
    /\ registryHas(files, AW) /\ hostFiles[BT].listed


\* C15: in a reconcile pass, a queued document whose host-visible embedded
\* files after the re-parse differ from those before it, in membership or in
\* the text of a shared identity, makes the pass dirty and the counter
\* advance.
C15_ChangeDetection ==
    [][QueryStep =>
        \A f \in Files :
            (/\ registryHas(files, f) /\ registryHas(files', f)
             /\ normalizePath(f) \in pass'.queued
             /\ HostVisible(registryGet(files', f).sourceFile)
                    # HostVisible(registryGet(files, f).sourceFile)) =>
                /\ pass'.tsFileUpdated
                /\ tsProjectVersion' = tsProjectVersion + 1]_vars

\* a re-parse renamed the document's only script, on a host with a project
\* version, and the counter advanced
C15_Witness ==
    /\ lastOp \in Queries /\ hostProjectVersion # Undefined
    /\ normalizePath(AW) \in pass.queued
    /\ registryHas(files, AW)
    /\ HostVisible(registryGet(files, AW).sourceFile) = {<<AW \o <<".", "js">>, "x1">>}
    /\ seenHost[AW].snapshot = ContentJs
    /\ tsProjectVersion = 2


\* the pass of this step ran to its end
CompletedPass == QueryStep /\ pass'.ran /\ ~pass'.thrown

\* C16: in a reconcile pass that completes, a tracked native file whose host
\* version differs from the tracked one has its entry refreshed, a tracked
\* native file the host no longer lists has its entry removed, a listed
\* native file not yet tracked has an entry added, and in each of these
\* cases the project-version counter advances.
C16_NativeTracking ==
    [][CompletedPass =>
        \A f \in Files :
            /\ (/\ MapHas(sourceTsFileVersions, f) /\ hostFiles[f].listed
                 /\ ~registryHas(files', f)
                 /\ sourceTsFileVersions[f] # hostGetScriptVersion(f)) =>
                    /\ MapGet(sourceTsFileVersions', f) = hostGetScriptVersion(f)
                    /\ tsProjectVersion' = tsProjectVersion + 1
            /\ (MapHas(sourceTsFileVersions, f) /\ ~hostFiles[f].listed) =>
                    /\ ~MapHas(sourceTsFileVersions', f)
                    /\ tsProjectVersion' = tsProjectVersion + 1
            /\ (/\ ~MapHas(sourceTsFileVersions, f) /\ hostFiles[f].listed
                 /\ ~registryHas(files', f)) =>
                    /\ MapGet(sourceTsFileVersions', f) = hostGetScriptVersion(f)
                    /\ tsProjectVersion' = tsProjectVersion + 1]_vars


\* the file names of the documents a registry holds
DocumentNames(reg) == {reg[i].sourceFile.fileName : i \in DOMAIN reg}

\* C17: a reconcile pass that completes leaves in the registry only
\* documents of files the host lists and has a snapshot for; a document
\* whose file the host has stopped listing is removed by the pass.
C17_Lifecycle ==
    (update(Adapter).pass.ran /\ ~update(Adapter).pass.thrown) =>
        \A f \in DocumentNames(update(Adapter).a.files) :
            hostFiles[f].listed /\ hostFiles[f].snapshot # Undefined

\* C18: the registry's documents change only inside the reconcile pass: the
\* query served after the pass leaves the registry as the pass left it.
C18_ExclusiveMutation ==
    [][QueryStep => files' = update(Adapter).a.files]_vars


\* C19: a reconcile pass re-parses a registered document only if the host's
\* version of the file differs from the one it had when the document was
\* created or last re-parsed, however the document entered the registry; and
\* the add step never creates a document for a file that is registered.
C19_ReparseOnlyOnVersionChange ==
    [][QueryStep =>
        \A f \in Files :
            registryHas(files, f) =>
                /\ (normalizePath(f) \in pass'.queued /\ ~pass'.thrown) =>
                       hostFiles[f].version # parsedVersions[f]
                /\ f \notin pass'.created]_vars


\* two queries in a row on a host with a project version: no change of the
\* host, and so no reconcile pass, lies between the first and a third
OnSameHost ==
    /\ QueryStep
    /\ hostProjectVersion # Undefined
    /\ result # Threw /\ result' # Threw

\* C20: on a host with a project version that does not change, when
\* getScriptFileNames returned a set of names, or getScriptSnapshot a text,
\* and after one more query the same call returns another, the value of
\* getProjectVersion has changed too.
C20_SurfaceChangeImpliesVersionChange ==
    [][/\ (OnSameHost /\ lastOp.op = "getScriptFileNames"
            /\ SeqRange(getScriptFileNames(Adapter')) # SeqRange(result.value)) =>
              tsProjectVersion' # tsProjectVersion
       /\ (OnSameHost /\ lastOp.op = "getScriptSnapshot"
            /\ getScriptSnapshot(Adapter', lastOp.arg).value # result.value) =>
              tsProjectVersion' # tsProjectVersion]_vars


====
